---- MODULE Spec2Model ----
(***************************************************************************)
(* Model of the tunnel-protocol v1 frame codec (package v1): Encode writes *)
(* one length-prefixed frame to an io.Writer, Decode reads one frame from  *)
(* an io.Reader.  The byte stream between them is the state.               *)
(*                                                                         *)
(* Numbers.  TLC evaluates integers in 32 bits, signed, while the          *)
(* code uses uint32 (StreamID, the length field) and a 64-bit int          *)
(* (len(f.Payload)).  A number n is therefore kept as two limbs            *)
(* <<hi, lo>> with n = hi * 65536 + lo and 0 <= lo < 65536; a uint32 has   *)
(* hi < 65536 as well.                                                     *)
(*                                                                         *)
(* Bytes.  A byte slice is kept run-length encoded: a sequence of runs     *)
(* [b |-> byte, n |-> count] in which no run is empty and no two adjacent  *)
(* runs carry the same byte, so that two slices are equal exactly when     *)
(* their representations are.  This lets a payload of MaxFrameSize - 9     *)
(* bytes, or of 4 GiB, be a value of the model.                            *)
(*                                                                         *)
(* Specifications.  Spec encodes frames into a buffer, damages the bytes   *)
(* and decodes them; SpecSink encodes into a sink that may fail at one of  *)
(* its writes; SpecPred calls the predicates of a frame.                   *)
(***************************************************************************)
EXTENDS Integers, Sequences, FiniteSets, TLC

\* ------------------------------------------------------------ constants

Version == 1

Magic0 == 82

Magic1 == 84

FrameAuth == 1

FrameOpenStream == 2

FrameData == 3

FrameClose == 4

FrameHeartbeat == 5

HeaderSize == 9

MaxFrameSize == 16777216

ErrCodeInvalidVersion == 1001

ErrCodeFrameTooLarge == 1002

ErrCodeBadFrame == 1003

ErrCodeBadPayload == 1004

\* ------------------------------------------------------------ numbers

\* The limb base, 2^16.
LimbBase == 65536

\* The number n (0 <= n < 2^31) as limbs.
Num(n) == <<n \div LimbBase, n % LimbBase>>

NumAdd(a, b) ==
    LET s == a[2] + b[2]
    IN  <<a[1] + b[1] + (s \div LimbBase), s % LimbBase>>

\* a - b for a >= b.
NumSub(a, b) ==
    IF a[2] >= b[2] THEN <<a[1] - b[1], a[2] - b[2]>>
    ELSE <<a[1] - b[1] - 1, a[2] + LimbBase - b[2]>>

NumLt(a, b) == a[1] < b[1] \/ (a[1] = b[1] /\ a[2] < b[2])

NumLe(a, b) == a = b \/ NumLt(a, b)

NumMin(a, b) == IF NumLt(a, b) THEN a ELSE b

\* The Go conversion uint32(x) of a non-negative int: x modulo 2^32.
Uint32(x) == <<x[1] % LimbBase, x[2]>>

\* binary.BigEndian.PutUint32: the four bytes of a uint32, most significant first.
PutUint32(u) == <<u[1] \div 256, u[1] % 256, u[2] \div 256, u[2] % 256>>

\* A plausible slip: the four bytes read least significant first.
LittleEndianUint32(b) == <<b[4] * 256 + b[3], b[2] * 256 + b[1]>>

\* binary.BigEndian.Uint32: the uint32 of four bytes, most significant first.
BigEndianUint32(b) == <<b[1] * 256 + b[2], b[3] * 256 + b[4]>>

StreamIDControl == Uint32(Num(0))

\* Frame flags, one bit each of the Flags byte.
FlagNone == 0
FlagEndStream == 2^0
FlagAck == 2^1
FlagError == 2^2

\* ------------------------------------------------------------ byte slices

Run(b, n) == [b |-> b, n |-> n]

\* s followed by the run r, merged into the last run of s when the bytes agree.
AppendRun(s, r) ==
    IF r.n = Num(0) THEN s
    ELSE IF s # <<>> /\ s[Len(s)].b = r.b
         THEN [s EXCEPT ![Len(s)] = Run(r.b, NumAdd(s[Len(s)].n, r.n))]
         ELSE Append(s, r)

\* append(s, t...): the runs of s, then the runs of t, the last run of s and the
\* first run of t merged into one when they carry the same byte.
Cat(s, t) ==
    IF t = <<>> THEN s
    ELSE IF s = <<>> THEN t
    ELSE IF s[Len(s)].b = Head(t).b
         THEN SubSeq(s, 1, Len(s) - 1)
                \o <<Run(Head(t).b, NumAdd(s[Len(s)].n, Head(t).n))>>
                \o Tail(t)
         ELSE s \o t

RECURSIVE Bytes(_)
\* The slice []byte{t[1], ..., t[n]} of a tuple of bytes.
Bytes(t) ==
    IF t = <<>> THEN <<>>
    ELSE Cat(<<Run(Head(t), Num(1))>>, Bytes(Tail(t)))

\* make([]byte, n) filled with b: n copies of the byte b.
Fill(b, n) == AppendRun(<<>>, Run(b, n))

\* len, s[:n] and s[n:] work through the runs four at a time, which keeps the
\* nesting of their evaluation shallow on slices of many runs.

\* len(s) for a slice of at most four runs
ShortLen(s) ==
    CASE Len(s) = 0 -> Num(0)
      [] Len(s) = 1 -> s[1].n
      [] Len(s) = 2 -> NumAdd(s[1].n, s[2].n)
      [] Len(s) = 3 -> NumAdd(NumAdd(s[1].n, s[2].n), s[3].n)
      [] OTHER      -> NumAdd(NumAdd(s[1].n, s[2].n), NumAdd(s[3].n, s[4].n))

RECURSIVE ByteLen(_)
\* len(s), four runs at a time
ByteLen(s) ==
    IF Len(s) <= 4 THEN ShortLen(s)
    ELSE NumAdd(ShortLen(SubSeq(s, 1, 4)), ByteLen(SubSeq(s, 5, Len(s))))

RECURSIVE Take(_, _)
\* s[:n] for n <= len(s): from the first four runs alone when they hold n
\* bytes, else these runs and the rest of the n bytes from the runs after them.
Take(s, n) ==
    IF n = Num(0) \/ s = <<>> THEN <<>>
    ELSE IF Len(s) = 1
         THEN IF NumLe(s[1].n, n) THEN s ELSE <<Run(s[1].b, n)>>
    ELSE LET h     == IF Len(s) > 4 THEN 4 ELSE Len(s) \div 2
             left  == SubSeq(s, 1, h)
             right == SubSeq(s, h + 1, Len(s))
             ll    == ByteLen(left)
         IN  IF NumLe(n, ll) THEN Take(left, n)
             ELSE left \o Take(right, NumSub(n, ll))

RECURSIVE Drop(_, _)
\* s[n:] for n <= len(s)
Drop(s, n) ==
    IF n = Num(0) \/ s = <<>> THEN s
    ELSE IF Len(s) = 1
         THEN IF NumLe(s[1].n, n) THEN <<>> ELSE <<Run(s[1].b, NumSub(s[1].n, n))>>
    ELSE LET h     == IF Len(s) > 4 THEN 4 ELSE Len(s) \div 2
             left  == SubSeq(s, 1, h)
             right == SubSeq(s, h + 1, Len(s))
             ll    == ByteLen(left)
         IN  IF NumLe(ll, n) THEN Drop(right, NumSub(n, ll))
             ELSE Drop(left, n) \o right

\* s[i] for a small index 0 <= i < len(s)
At(s, i) == Head(Drop(s, Num(i))).b

\* s with s[i] = v, for a small index 0 <= i < len(s)
SetAt(s, i, v) ==
    Cat(Cat(Take(s, Num(i)), <<Run(v, Num(1))>>), Drop(s, Num(i + 1)))

\* ------------------------------------------------------------ errors

\* The nil error.
NoError == [kind |-> "nil", code |-> 0, msg |-> ""]

\* A plausible slip: the code is not stored, the error carries the zero code.
NewErrorNoCode(code, msg) == [kind |-> "ProtocolError", code |-> 0, msg |-> msg]

\* NewError(code, msg): a *ProtocolError.
NewError(code, msg) == [kind |-> "ProtocolError", code |-> code, msg |-> msg]

\* IsProtocolError(err): whether err is a *ProtocolError (false for nil).
IsProtocolError(err) == err # NoError /\ err.kind = "ProtocolError"

\* io.EOF: the source had no byte left when a read began.
EOF == [kind |-> "io", code |-> 0, msg |-> "EOF"]

\* io.ErrUnexpectedEOF: the source ended after some, not all, of the bytes.
ErrUnexpectedEOF == [kind |-> "io", code |-> 0, msg |-> "unexpected EOF"]

\* The error a failing sink reports from Write.
ErrSink == [kind |-> "sink", code |-> 0, msg |-> "write failed"]

\* ------------------------------------------------------------ sink and source

\* A sink: the bytes it holds, the number of Write calls it has served, and
\* the call that fails (failAt-th; 0 for a sink that never fails, such as a
\* bytes.Buffer) after taking the first `part` bytes of that call.
Writer(data, failAt, part) ==
    [data |-> data, writes |-> 0, failAt |-> failAt, part |-> part]

\* w.Write(p): the sink afterwards and the error returned.
Write(w, p) ==
    IF w.failAt = w.writes + 1
    THEN [w   |-> [w EXCEPT !.data = Cat(w.data, Take(p, NumMin(Num(w.part), ByteLen(p)))),
                            !.writes = w.writes + 1],
          err |-> ErrSink]
    ELSE [w   |-> [w EXCEPT !.data = Cat(w.data, p), !.writes = w.writes + 1],
          err |-> NoError]

\* A plausible slip: one byte past the n asked for is taken from the source.
ReadFullOverRead(r, n) ==
    IF NumLe(n, ByteLen(r))
    THEN [data |-> Take(r, n), r |-> Drop(r, NumAdd(n, Num(1))), err |-> NoError]
    ELSE [data |-> r, r |-> <<>>,
          err  |-> IF r = <<>> THEN EOF ELSE ErrUnexpectedEOF]

\* A plausible slip: a short read is wrapped into a ProtocolError.
ReadFullWrapped(r, n) ==
    IF NumLe(n, ByteLen(r))
    THEN [data |-> Take(r, n), r |-> Drop(r, n), err |-> NoError]
    ELSE [data |-> r, r |-> <<>>, err |-> NewError(ErrCodeBadFrame, "truncated frame")]

\* io.ReadFull(r, buf) with len(buf) = n >= 1 on a source holding the bytes r:
\* the bytes read, the source afterwards and the error.
ReadFull(r, n) ==
    IF NumLe(n, ByteLen(r))
    THEN [data |-> Take(r, n), r |-> Drop(r, n), err |-> NoError]
    ELSE [data |-> r, r |-> <<>>,
          err  |-> IF r = <<>> THEN EOF ELSE ErrUnexpectedEOF]

\* ------------------------------------------------------------ frames

Frame(v, t, fl, sid, payload) ==
    [Version |-> v, Type |-> t, Flags |-> fl, StreamID |-> sid, Payload |-> payload]

\* A *Frame is nil or points to a frame.
Nil == <<>>

Ptr(f) == <<f>>

\* A plausible slip: a range test that lets the type 0 through.
IsValidFrameTypeUpTo(frameType) == frameType <= FrameHeartbeat

IsValidFrameType(frameType) ==
    frameType \in {FrameAuth, FrameOpenStream, FrameData, FrameClose, FrameHeartbeat}

\* A plausible slip: the stream ID compared as a signed 32-bit integer.
IsDataStreamSigned(f) ==
    NumLt(StreamIDControl, f.StreamID) /\ f.StreamID[1] < 32768

\* f.IsControlFrame()
IsControlFrame(f) == f.StreamID = StreamIDControl

\* f.IsDataStream(): an unsigned comparison
IsDataStream(f) == NumLt(StreamIDControl, f.StreamID)

RECURSIVE BitAnd(_, _)
\* a & b on unsigned integers
BitAnd(a, b) ==
    IF a = 0 \/ b = 0 THEN 0
    ELSE (a % 2) * (b % 2) + 2 * BitAnd(a \div 2, b \div 2)

\* A plausible slip: the flags compared with the mask instead of masked by it.
HasFlagExact(f, flag) == f.Flags = flag

\* f.HasFlag(flag)
HasFlag(f, flag) == BitAnd(f.Flags, flag) # 0

IsEndStream(f) == HasFlag(f, FlagEndStream)

IsError(f) == HasFlag(f, FlagError)

IsAck(f) == HasFlag(f, FlagAck)

\* length := uint32(HeaderSize + len(f.Payload))
EncodeLength(f) == Uint32(NumAdd(Num(HeaderSize), ByteLen(f.Payload)))

\* length > MaxFrameSize
TooLarge(length) == NumLt(Num(MaxFrameSize), length)

\* A plausible slip: the error of the write of the magic marker is not checked.
WriteFrameUnchecked(w, f, length) ==
    LET w1 == Write(w, Bytes(PutUint32(length)))
    IN  IF w1.err # NoError THEN w1 ELSE
    LET w2 == Write(w1.w, Bytes(<<Magic0, Magic1>>))
        w3 == Write(w2.w, Bytes(<<f.Version, f.Type, f.Flags>>))
    IN  IF w3.err # NoError THEN w3 ELSE
    LET w4 == Write(w3.w, Bytes(PutUint32(f.StreamID)))
    IN  IF w4.err # NoError THEN w4 ELSE
    IF f.Payload # <<>> THEN Write(w4.w, f.Payload)
    ELSE [w |-> w4.w, err |-> NoError]

\* The writes of Encode, in order, stopping at the first that fails: the
\* length, the magic marker, version/type/flags, the stream ID, the payload.
WriteFrame(w, f, length) ==
    LET w1 == Write(w, Bytes(PutUint32(length)))
    IN  IF w1.err # NoError THEN w1 ELSE
    LET w2 == Write(w1.w, Bytes(<<Magic0, Magic1>>))
    IN  IF w2.err # NoError THEN w2 ELSE
    LET w3 == Write(w2.w, Bytes(<<f.Version, f.Type, f.Flags>>))
    IN  IF w3.err # NoError THEN w3 ELSE
    LET w4 == Write(w3.w, Bytes(PutUint32(f.StreamID)))
    IN  IF w4.err # NoError THEN w4 ELSE
    IF f.Payload # <<>> THEN Write(w4.w, f.Payload)
    ELSE [w |-> w4.w, err |-> NoError]

\* A plausible slip: the length prefix is written before the version is checked.
EncodeWritesFirst(w, f) ==
    LET w1 == Write(w, Bytes(PutUint32(EncodeLength(f))))
    IN  IF f.Version # Version
        THEN [w |-> w1.w, err |-> NewError(ErrCodeInvalidVersion, "invalid protocol version")]
        ELSE IF TooLarge(EncodeLength(f))
        THEN [w |-> w, err |-> NewError(ErrCodeFrameTooLarge, "frame too large")]
        ELSE WriteFrame(w, f, EncodeLength(f))

\* Encode(w, f): the sink afterwards and the error returned.
Encode(w, f) ==
    IF f.Version # Version
    THEN [w |-> w, err |-> NewError(ErrCodeInvalidVersion, "invalid protocol version")]
    ELSE IF TooLarge(EncodeLength(f))
    THEN [w |-> w, err |-> NewError(ErrCodeFrameTooLarge, "frame too large")]
    ELSE WriteFrame(w, f, EncodeLength(f))

\* A plausible slip: an off-by-one in the upper bound, so that a declared
\* length of MaxFrameSize + 1 passes.
BadSizeOffByOne(length) ==
    NumLt(length, Num(HeaderSize)) \/ NumLt(Num(MaxFrameSize + 1), length)

\* length < HeaderSize || length > MaxFrameSize
BadSize(length) ==
    NumLt(length, Num(HeaderSize)) \/ NumLt(Num(MaxFrameSize), length)

\* A plausible slip: only the first byte of the marker is compared.
BadMagicFirstByteOnly(buf) == At(buf, 0) # Magic0

\* buf[0] != Magic0 || buf[1] != Magic1
BadMagic(buf) == At(buf, 0) # Magic0 \/ At(buf, 1) # Magic1

\* A plausible slip: only versions newer than the supported one are refused.
BadVersionAbove(buf) == At(buf, 2) > Version

\* buf[2] != Version
BadVersion(buf) == At(buf, 2) # Version

\* A plausible slip: the version is validated before the magic marker.
HeaderErrorVersionFirst(buf) ==
    IF BadVersion(buf)
    THEN NewError(ErrCodeInvalidVersion, "invalid protocol version")
    ELSE IF BadMagic(buf)
    THEN NewError(ErrCodeBadFrame, "invalid magic marker")
    ELSE IF ~IsValidFrameType(At(buf, 3))
    THEN NewError(ErrCodeBadFrame, "invalid frame type")
    ELSE NoError

\* The checks of Decode on the bytes read, in order: magic marker, version,
\* frame type.  The error of the first that fails, or nil.
HeaderError(buf) ==
    IF BadMagic(buf)
    THEN NewError(ErrCodeBadFrame, "invalid magic marker")
    ELSE IF BadVersion(buf)
    THEN NewError(ErrCodeInvalidVersion, "invalid protocol version")
    ELSE IF ~IsValidFrameType(At(buf, 3))
    THEN NewError(ErrCodeBadFrame, "invalid frame type")
    ELSE NoError

\* ParseFrame with the Flags field left at its zero value.
ParseFrameDefaultFlags(buf) ==
    Frame(At(buf, 2), At(buf, 3), 0,
          BigEndianUint32(<<At(buf, 5), At(buf, 6), At(buf, 7), At(buf, 8)>>),
          Drop(buf, Num(HeaderSize)))

\* The frame Decode builds from the bytes read.
ParseFrame(buf) ==
    Frame(At(buf, 2), At(buf, 3), At(buf, 4),
          BigEndianUint32(<<At(buf, 5), At(buf, 6), At(buf, 7), At(buf, 8)>>),
          Drop(buf, Num(HeaderSize)))

\* A plausible slip: the nine header bytes are read and checked before the
\* payload is read, so a rejected frame leaves its payload in the source.
DecodeHeaderFirst(r) ==
    LET rd == ReadFull(r, Num(4)) IN
    IF rd.err # NoError THEN [frame |-> Nil, err |-> rd.err, r |-> rd.r] ELSE
    LET length == BigEndianUint32(<<At(rd.data, 0), At(rd.data, 1),
                                    At(rd.data, 2), At(rd.data, 3)>>) IN
    IF BadSize(length)
    THEN [frame |-> Nil, err |-> NewError(ErrCodeBadFrame, "invalid frame size"), r |-> rd.r]
    ELSE
    LET hdr == ReadFull(rd.r, Num(HeaderSize)) IN
    IF hdr.err # NoError THEN [frame |-> Nil, err |-> hdr.err, r |-> hdr.r] ELSE
    IF HeaderError(hdr.data) # NoError
    THEN [frame |-> Nil, err |-> HeaderError(hdr.data), r |-> hdr.r]
    ELSE
    LET body == ReadFull(rd.r, length) IN
    IF body.err # NoError THEN [frame |-> Nil, err |-> body.err, r |-> body.r]
    ELSE [frame |-> Ptr(ParseFrame(body.data)), err |-> NoError, r |-> body.r]

\* Decode(r): the frame returned, the error returned and the source afterwards.
Decode(r) ==
    LET rd == ReadFull(r, Num(4))
    IN
    IF rd.err # NoError THEN [frame |-> Nil, err |-> rd.err, r |-> rd.r] ELSE
    LET length == BigEndianUint32(<<At(rd.data, 0), At(rd.data, 1),
                                    At(rd.data, 2), At(rd.data, 3)>>)
    IN
    IF BadSize(length)
    THEN [frame |-> Nil, err |-> NewError(ErrCodeBadFrame, "invalid frame size"), r |-> rd.r]
    ELSE
    LET body == ReadFull(rd.r, length)
    IN
    IF body.err # NoError THEN [frame |-> Nil, err |-> body.err, r |-> body.r] ELSE
    IF HeaderError(body.data) # NoError
    THEN [frame |-> Nil, err |-> HeaderError(body.data), r |-> body.r]
    ELSE [frame |-> Ptr(ParseFrame(body.data)), err |-> NoError, r |-> body.r]

\* The bytes Encode writes for f into an empty sink that never fails.
Image(f) == Encode(Writer(<<>>, 0, 0), f).w.data

RECURSIVE ImageAll(_)
\* The bytes of the frames fs encoded one after another into one such sink.
ImageAll(fs) == IF fs = <<>> THEN <<>> ELSE Cat(Image(Head(fs)), ImageAll(Tail(fs)))

\* ------------------------------------------------------------ bounds and inputs

\* Events in one run: calls of Encode, corrupted bytes and truncations.
MaxEvents == 3

\* Calls of Decode in one run.
MaxDecodes == 3

\* Header fields <<Version, Type, Flags, StreamID>> of frames the data model
\* allows; the stream IDs are 0 and 0x01020304.
ValidHeaders ==
    { <<Version, FrameHeartbeat, 0, StreamIDControl>>,
      <<Version, FrameAuth, 255, <<258, 772>>>> }

\* A frame type outside the enumeration, with stream ID 0xFFFFFFFF.
UnknownTypeHeader == <<Version, 6, 5, <<65535, 65535>>>>

\* An unsupported version.
BadVersionHeader == <<2, FrameData, 1, <<0, 1>>>>

SmallPayloads == {<<>>, Bytes(<<82, 0, 255>>)}

\* The longest payload a frame may carry: MaxFrameSize - HeaderSize bytes.
MaxPayload == Fill(0, Num(MaxFrameSize - HeaderSize))

\* One byte more than that.
OversizePayload == Fill(0, Num(MaxFrameSize - HeaderSize + 1))

\* Payloads of 2^32 - 9 and of 2^32 bytes: HeaderSize + len is 2^32 and 2^32 + 9.
HugePayloads == {Fill(0, <<65535, 65527>>), Fill(0, <<65536, 0>>)}

FrameOf(h, p) == Frame(h[1], h[2], h[3], h[4], p)

Frames ==
    { FrameOf(h, p) : h \in ValidHeaders \cup {BadVersionHeader}, p \in SmallPayloads }
    \cup { FrameOf(UnknownTypeHeader, <<>>) }
    \cup { FrameOf(<<Version, FrameData, 1, <<0, 1>>>>, p) :
             p \in {MaxPayload, OversizePayload} \cup HugePayloads }
    \cup { FrameOf(BadVersionHeader, OversizePayload) }

\* The offsets, from the head of the stream, at which a byte is corrupted: the
\* first and last byte of the length field, the magic marker, the version and
\* the type.
CorruptOffsets == {0, 3, 4, 5, 6, 7}

\* The values the corrupted byte at offset i takes.
CorruptBytes(i) ==
    CASE i = 0 -> {1, 255}
      [] i = 3 -> {1, 8, 255}
      [] i = 4 -> {0, Magic1}
      [] i = 5 -> {0, Magic0}
      [] i = 6 -> {0, 255}
      [] OTHER -> {0, FrameOpenStream, 255}

\* A truncated stream keeps this many bytes,
KeepLens == {0, 2, 4, 12}

\* or loses this many bytes at its end.
CutLens == {1}

\* ------------------------------------------------------------ state

VARIABLES
    stream,   \* the unread bytes of the connection: Encode appends, Decode consumes
    orig,     \* the stream as it would be had no byte been corrupted
    sent,     \* the frames Encode accepted whose bytes make up orig, oldest first
    whole,    \* whether orig is exactly the encodings of sent
    last,     \* the last call: its inputs, the state it started from, its results
    events,   \* calls of Encode, corruptions and truncations so far
    decodes   \* calls of Decode so far

vars == <<stream, orig, sent, whole, last, events, decodes>>

\* The record of a call of Encode or Decode, with the state it started from.
Call(op, f, err, out) ==
    [op |-> op, f |-> f, err |-> err, out |-> out,
     stream |-> stream, orig |-> orig, sent |-> sent, whole |-> whole]

\* No call: the stream was changed by the transport, not by the codec.
NoCall ==
    [op |-> "none", f |-> Nil, err |-> NoError, out |-> Nil,
     stream |-> <<>>, orig |-> <<>>, sent |-> <<>>, whole |-> TRUE]

Init ==
    /\ stream = <<>>
    /\ orig = <<>>
    /\ sent = <<>>
    /\ whole = TRUE
    /\ events = 0
    /\ decodes = 0
    /\ last = NoCall

\* A run follows the repository's tests: frames are encoded into a buffer, the
\* bytes are then possibly damaged, and the reader decodes until it stops.

\* Encode(&stream, f), the stream being a bytes.Buffer: no Write fails.
EncodeOp(f) ==
    /\ events < MaxEvents
    /\ decodes = 0
    /\ LET res   == Encode(Writer(stream, 0, 0), f)
           added == Drop(res.w.data, ByteLen(stream))
       IN  /\ stream' = res.w.data
           /\ orig' = Cat(orig, added)
           /\ sent' = IF res.err = NoError /\ whole THEN Append(sent, f) ELSE sent
           /\ whole' = (whole /\ (res.err = NoError \/ added = <<>>))
           /\ last' = Call("Encode", Ptr(f), res.err, Nil)
    /\ events' = events + 1
    /\ UNCHANGED decodes

\* Decode(&stream)
DecodeOp ==
    LET res      == Decode(stream)
        consumed == NumSub(ByteLen(stream), ByteLen(res.r))
        rest     == Drop(orig, consumed)
        aligned  == whole /\ sent # <<>> /\ consumed = ByteLen(Image(Head(sent)))
    IN  /\ decodes < MaxDecodes
        /\ stream' = res.r
        /\ orig' = rest
        /\ sent' = IF aligned THEN Tail(sent) ELSE IF rest = <<>> THEN <<>> ELSE sent
        /\ whole' = (aligned \/ rest = <<>>)
        /\ last' = Call("Decode", Nil, res.err, res.frame)
        /\ decodes' = decodes + 1
        /\ UNCHANGED events

\* The transport delivers the byte v in place of the byte at offset i.
Corrupt(i, v) ==
    /\ events < MaxEvents
    /\ decodes = 0
    /\ NumLt(Num(i), ByteLen(stream))
    /\ At(stream, i) # v
    /\ stream' = SetAt(stream, i, v)
    /\ last' = NoCall
    /\ events' = events + 1
    /\ UNCHANGED <<orig, sent, whole, decodes>>

\* The connection ends early: only the first n bytes of the stream arrive.
Truncate(n) ==
    /\ events < MaxEvents
    /\ decodes = 0
    /\ NumLt(n, ByteLen(stream))
    /\ stream' = Take(stream, n)
    /\ orig' = Take(orig, n)
    /\ sent' = IF n = Num(0) THEN <<>> ELSE sent
    /\ whole' = (n = Num(0))
    /\ last' = NoCall
    /\ events' = events + 1
    /\ UNCHANGED decodes

Next ==
    \/ \E f \in Frames : EncodeOp(f)
    \/ DecodeOp
    \/ \E i \in CorruptOffsets : \E v \in CorruptBytes(i) : Corrupt(i, v)
    \/ \E k \in KeepLens : Truncate(Num(k))
    \/ \E d \in CutLens :
          /\ NumLe(Num(d), ByteLen(stream))
          /\ Truncate(NumSub(ByteLen(stream), Num(d)))

Spec == Init /\ [][Next]_vars

\* ------------------------------------------------------------ a sink that fails

\* Calls of Encode in one run with a sink that may fail.
MaxSinkEvents == 2

\* The frames offered to such a sink: two frames of the data model, one with
\* an unsupported version, one with an unknown type, one too large.
SinkFrames ==
    { FrameOf(h, <<>>) : h \in {<<Version, FrameHeartbeat, 0, StreamIDControl>>,
                                UnknownTypeHeader} }
    \cup { FrameOf(h, Bytes(<<82, 0, 255>>)) : h \in {<<Version, FrameAuth, 255, <<258, 772>>>>,
                                                      BadVersionHeader} }
    \cup { FrameOf(<<Version, FrameData, 1, <<0, 1>>>>, OversizePayload) }

\* The Write call of one Encode at which the sink fails: the first to the
\* fifth, or none.
SinkFailAts == 0 .. 5

\* The bytes the failing Write takes before it reports its error.
SinkParts == {0, 1}

\* The record of a call of Encode on the sink w, which came back as res: the
\* record Call makes, with the sink's failing call and the calls it served.
SinkCall(f, w, res) ==
    [op |-> "Encode", f |-> Ptr(f), err |-> res.err, out |-> Nil,
     stream |-> stream, orig |-> orig, sent |-> sent, whole |-> whole,
     failAt |-> w.failAt, part |-> w.part, writes |-> res.w.writes]

\* Encode(w, f) where w appends to the stream and fails at its k-th Write
\* after taking `part` bytes of it (k = 0: it never fails).
EncodeSinkOp(f, k, part) ==
    /\ events < MaxSinkEvents
    /\ decodes = 0
    /\ LET w     == Writer(stream, k, part)
           res   == Encode(w, f)
           added == Drop(res.w.data, ByteLen(stream))
       IN  /\ stream' = res.w.data
           /\ orig' = Cat(orig, added)
           /\ sent' = IF res.err = NoError /\ whole THEN Append(sent, f) ELSE sent
           /\ whole' = (whole /\ (res.err = NoError \/ added = <<>>))
           /\ last' = SinkCall(f, w, res)
    /\ events' = events + 1
    /\ UNCHANGED decodes

\* Frames are encoded into a sink that may fail, the version byte at the head
\* of the stream is possibly damaged, and the reader decodes what arrived.
NextSink ==
    \/ \E f \in SinkFrames : \E k \in SinkFailAts : \E part \in SinkParts :
          EncodeSinkOp(f, k, part)
    \/ Corrupt(6, 2)
    \/ DecodeOp

SpecSink == Init /\ [][NextSink]_vars

\* ------------------------------------------------------------ the predicates of a frame

\* The stream IDs of the frames examined: 0, 1, 0xFFFF, 0x10000, 0x7FFFFFFF,
\* 0x80000000 and 0xFFFFFFFF.
PredStreamIDs ==
    {StreamIDControl, <<0, 1>>, <<0, 65535>>, <<1, 0>>, <<32767, 65535>>, <<32768, 0>>,
     <<65535, 65535>>}

\* Their flags: every value of the byte.
PredFlags == 0 .. 255

\* The frames examined: data frames carrying "test".
PredFrames ==
    { Frame(Version, FrameData, fl, sid, Bytes(<<116, 101, 115, 116>>)) :
        fl \in PredFlags, sid \in PredStreamIDs }

\* The masks HasFlag is called with.
PredMasks == {FlagEndStream, FlagAck, FlagError}

\* The frame in hand is the one element of sent; the other variables keep
\* their initial values and last records the calls made on the frame.
InitPred ==
    /\ stream = <<>>
    /\ orig = <<>>
    /\ sent \in { <<f>> : f \in PredFrames }
    /\ whole = TRUE
    /\ events = 0
    /\ decodes = 0
    /\ last = NoCall

\* The stream-ID predicates are called on the frame in hand, one after the
\* other; they read the frame and assign nothing.
ClassifyOp ==
    /\ last' = [op        |-> "Classify",
                f         |-> sent,
                isControl |-> IsControlFrame(Head(sent)),
                isData    |-> IsDataStream(Head(sent))]
    /\ UNCHANGED <<stream, orig, sent, whole, events, decodes>>

\* The flag predicates are called on the frame in hand: HasFlag with each
\* mask, then IsEndStream, IsAck and IsError.
FlagsOp ==
    /\ last' = [op          |-> "Flags",
                f           |-> sent,
                has         |-> [b \in PredMasks |-> HasFlag(Head(sent), b)],
                isEndStream |-> IsEndStream(Head(sent)),
                isAck       |-> IsAck(Head(sent)),
                isError     |-> IsError(Head(sent))]
    /\ UNCHANGED <<stream, orig, sent, whole, events, decodes>>

NextPred ==
    \/ ClassifyOp
    \/ FlagsOp

SpecPred == InitPred /\ [][NextPred]_vars

\* ------------------------------------------------------------ vocabulary of the properties

\* The stream holds at least n bytes.
Has(s, n) == NumLe(Num(n), ByteLen(s))

\* The length the first four bytes of s declare, read off the wire layout.
DeclaredLen(s) == <<At(s, 0) * 256 + At(s, 1), At(s, 2) * 256 + At(s, 3)>>

\* A declared length outside [HeaderSize, MaxFrameSize].
OutOfRange(n) == NumLt(n, Num(9)) \/ NumLt(Num(MaxFrameSize), n)

\* HeaderSize + len(payload) as a number, without conversion to 32 bits.
TotalSize(f) == NumAdd(Num(9), ByteLen(f.Payload))

\* A frame of the data model: supported version, enumerated type, a payload of
\* at most MaxFrameSize - HeaderSize bytes.
ValidFrame(f) ==
    /\ f.Version = 1
    /\ f.Type \in 1 .. 5
    /\ f.Flags \in 0 .. 255
    /\ NumLe(TotalSize(f), Num(MaxFrameSize))

AllValid(fs) == \A k \in 1 .. Len(fs) : ValidFrame(fs[k])

\* s begins with the bytes p.
StartsWith(s, p) == NumLe(ByteLen(p), ByteLen(s)) /\ Take(s, ByteLen(p)) = p

\* The last call was Decode, on a stream whose head is the encoding of a frame
\* Encode accepted, possibly with corrupted bytes.
DecodedEncodedFrame ==
    /\ last.op = "Decode"
    /\ last.whole
    /\ last.sent # <<>>
    /\ StartsWith(last.orig, Image(Head(last.sent)))
    /\ ByteLen(last.stream) = ByteLen(last.orig)

\* The stream Decode was called on differs from the encoded bytes at the
\* offsets a and b (one of them at least) and nowhere else.
DiffersOnlyAt(a, b) ==
    /\ last.stream # last.orig
    /\ SetAt(SetAt(last.stream, a, At(last.orig, a)), b, At(last.orig, b)) = last.orig

ProtocolErrorWith(err, code) == IsProtocolError(err) /\ err.code = code

IsEndOfInput(err) == err = EOF \/ err = ErrUnexpectedEOF

\* ------------------------------------------------------------ C1

\* C1: round trip.  Encode accepts every frame of the data model (version 1,
\* type in 1..5, any flags, any stream ID, 0 to MaxFrameSize - 9 bytes of
\* payload), and Decode of the bytes it wrote into an empty sink succeeds and
\* returns a frame equal to it in every field.
C1_RoundTrip ==
    /\ (last.op = "Encode" /\ ValidFrame(last.f[1]) =>
          /\ last.err = NoError
          /\ stream # last.stream)
    /\ (/\ last.op = "Decode"
        /\ last.sent # <<>>
        /\ ValidFrame(Head(last.sent))
        /\ last.stream = Image(Head(last.sent))
        => /\ last.err = NoError
           /\ last.out = Ptr(Head(last.sent)))

\* A frame with a payload of exactly MaxFrameSize - 9 bytes came back from Decode.
C1_Witness ==
    /\ last.op = "Decode"
    /\ last.sent # <<>>
    /\ ValidFrame(Head(last.sent))
    /\ last.stream = Image(Head(last.sent))
    /\ ByteLen(Head(last.sent).Payload) = Num(MaxFrameSize - 9)
    /\ last.out = Ptr(Head(last.sent))

\* ------------------------------------------------------------ C2

\* C2 as stated: a successful Decode consumes exactly 4 + length bytes of the
\* source.  Hence, when frames f1..fn are each encoded with Encode one after
\* another into the same sink, successive calls of Decode on those bytes
\* return f1..fn in that order, and on the exhausted stream Decode reports
\* end of input.
C2_AsClaimed ==
    /\ (last.op = "Decode" /\ last.err = NoError =>
          /\ Has(last.stream, 4)
          /\ LET n == NumAdd(Num(4), DeclaredLen(last.stream))
             IN  /\ NumLe(n, ByteLen(last.stream))
                 /\ stream = Drop(last.stream, n)
                 /\ ByteLen(last.stream) = NumAdd(ByteLen(stream), n))
    /\ (/\ last.op = "Decode"
        /\ last.whole
        /\ last.stream = ImageAll(last.sent)
        => IF last.sent = <<>>
           THEN last.err = EOF /\ last.out = Nil /\ stream = <<>>
           ELSE /\ last.err = NoError
                /\ last.out = Ptr(Head(last.sent))
                /\ sent = Tail(last.sent)
                /\ stream = ImageAll(sent))

\* The same for the frames of the data model only (version 1, type in 1..5,
\* 9 + len(payload) at most MaxFrameSize): on a stream that is the encodings
\* of such frames f1..fn, Decode returns f1 and leaves exactly the encodings of
\* f2..fn, and on the exhausted stream it reports end of input.
C2_ExactConsumption ==
    /\ (last.op = "Decode" /\ last.err = NoError =>
          /\ Has(last.stream, 4)
          /\ LET n == NumAdd(Num(4), DeclaredLen(last.stream))
             IN  /\ NumLe(n, ByteLen(last.stream))
                 /\ stream = Drop(last.stream, n)
                 /\ ByteLen(last.stream) = NumAdd(ByteLen(stream), n))
    /\ (/\ last.op = "Decode"
        /\ AllValid(last.sent)
        /\ last.stream = ImageAll(last.sent)
        => IF last.sent = <<>>
           THEN last.err = EOF /\ last.out = Nil /\ stream = <<>>
           ELSE /\ last.err = NoError
                /\ last.out = Ptr(Head(last.sent))
                /\ sent = Tail(last.sent)
                /\ stream = ImageAll(sent))

\* Two different frames were in the stream; Decode returned the first and left
\* exactly the second.
C2_Witness ==
    /\ last.op = "Decode"
    /\ Len(last.sent) = 2
    /\ AllValid(last.sent)
    /\ last.sent[1] # last.sent[2]
    /\ last.stream = ImageAll(last.sent)
    /\ last.out = Ptr(last.sent[1])
    /\ stream = Image(last.sent[2])

\* ------------------------------------------------------------ C3

\* C3 as stated: Decode fails with code FrameTooLarge (1002) whenever the
\* declared length exceeds MaxFrameSize or is below 9.
C3_AsClaimed ==
    last.op = "Decode" /\ Has(last.stream, 4) /\ OutOfRange(DeclaredLen(last.stream))
    => ProtocolErrorWith(last.err, 1002)

\* C3 as amended: Decode fails with a ProtocolError of code BadFrame (1003), and
\* returns no frame, whenever the declared length exceeds MaxFrameSize or is
\* below 9.
C3_SizeRejected ==
    last.op = "Decode" /\ Has(last.stream, 4) /\ OutOfRange(DeclaredLen(last.stream))
    => ProtocolErrorWith(last.err, 1003) /\ last.out = Nil

\* Decode rejected a declared length of MaxFrameSize + 1.
C3_Witness ==
    /\ last.op = "Decode"
    /\ Has(last.stream, 4)
    /\ DeclaredLen(last.stream) = <<256, 1>>
    /\ ProtocolErrorWith(last.err, 1003)

\* ------------------------------------------------------------ C4

\* C4: Encode of a frame whose version is not 1 returns a ProtocolError of code
\* InvalidVersion (1001) and writes nothing: the sink holds what it held.
C4_VersionRejected ==
    last.op = "Encode" /\ last.f[1].Version # 1
    => ProtocolErrorWith(last.err, 1001) /\ stream = last.stream

\* Encode rejected a version-2 frame offered to a sink that already held a frame.
C4_Witness ==
    /\ last.op = "Encode"
    /\ last.f[1].Version = 2
    /\ last.stream # <<>>
    /\ ProtocolErrorWith(last.err, 1001)
    /\ stream = last.stream

\* ------------------------------------------------------------ C5

\* C5 as stated: Encode of a version-1 frame whose 9 + len(payload) exceeds
\* MaxFrameSize returns FrameTooLarge (1002) and writes nothing, and a frame
\* whose 9 + len(payload) is at most MaxFrameSize is not rejected.
C5_AsClaimed ==
    last.op = "Encode" /\ last.f[1].Version = 1
    => IF NumLt(Num(MaxFrameSize), TotalSize(last.f[1]))
       THEN ProtocolErrorWith(last.err, 1002) /\ stream = last.stream
       ELSE last.err = NoError

\* ------------------------------------------------------------ C6

\* C6: truncation.  When the stream ends inside the length field, or declares a
\* length in [9, MaxFrameSize] and ends before that many bytes follow, Decode
\* returns no frame and the source's own end-of-input error, never a
\* ProtocolError, whatever the bytes present are: io.EOF when the read that
\* fell short found no byte at all, io.ErrUnexpectedEOF when it found some.
C6_Truncation ==
    last.op = "Decode" =>
      /\ (~Has(last.stream, 4) =>
            /\ last.out = Nil
            /\ last.err = IF last.stream = <<>> THEN EOF ELSE ErrUnexpectedEOF)
      /\ (/\ Has(last.stream, 4)
          /\ ~OutOfRange(DeclaredLen(last.stream))
          /\ NumLt(ByteLen(last.stream), NumAdd(Num(4), DeclaredLen(last.stream)))
          => /\ last.out = Nil
             /\ last.err = IF ByteLen(last.stream) = Num(4) THEN EOF ELSE ErrUnexpectedEOF)

\* A frame of MaxFrameSize bytes lost its last byte; its magic marker, version
\* and type were intact, and Decode reported the unexpected end of input.
C6_Witness ==
    /\ last.op = "Decode"
    /\ Has(last.stream, 13)
    /\ DeclaredLen(last.stream) = Num(MaxFrameSize)
    /\ ByteLen(last.stream) = NumAdd(Num(3), Num(MaxFrameSize))
    /\ At(last.stream, 4) = 82 /\ At(last.stream, 5) = 84
    /\ At(last.stream, 6) = 1 /\ At(last.stream, 7) \in 1 .. 5
    /\ last.err = ErrUnexpectedEOF
    /\ last.out = Nil

\* ------------------------------------------------------------ C7

\* C7: magic-marker integrity.  When the bytes of a frame Encode accepted are
\* changed at offset 4, at offset 5 or at both, Decode fails with a
\* ProtocolError of code BadFrame (1003); and Decode never succeeds on a
\* stream whose bytes 4 and 5 are not 0x52 0x54.
C7_MagicIntegrity ==
    /\ (DecodedEncodedFrame /\ DiffersOnlyAt(4, 5)
          => ProtocolErrorWith(last.err, 1003) /\ last.out = Nil)
    /\ (/\ last.op = "Decode"
        /\ Has(last.stream, 6)
        /\ <<At(last.stream, 4), At(last.stream, 5)>> # <<82, 84>>
        => last.err # NoError /\ last.out = Nil)

\* Both marker bytes of an encoded frame were changed and Decode reported BadFrame.
C7_Witness ==
    /\ DecodedEncodedFrame
    /\ DiffersOnlyAt(4, 5)
    /\ At(last.stream, 4) # 82
    /\ At(last.stream, 5) # 84
    /\ ProtocolErrorWith(last.err, 1003)

\* ------------------------------------------------------------ C8

\* C8 as stated: when the version byte (offset 6) of a frame Encode accepted is
\* replaced by a value other than 1, all other bytes untouched, Decode fails
\* with a ProtocolError of code InvalidVersion (1001).
C8_AsClaimed ==
    DecodedEncodedFrame /\ DiffersOnlyAt(6, 6) => ProtocolErrorWith(last.err, 1001)

\* ------------------------------------------------------------ C9

\* C9: every frame Decode returns has a type in 1..5 and version 1; a complete
\* input with a length in range, the magic marker and version 1 but a type
\* byte outside 1..5 is rejected with a ProtocolError of code BadFrame (1003)
\* and no frame.
C9_TypeValidated ==
    last.op = "Decode" =>
      /\ (last.out # Nil => last.out[1].Type \in 1 .. 5 /\ last.out[1].Version = 1)
      /\ (/\ Has(last.stream, 4)
          /\ ~OutOfRange(DeclaredLen(last.stream))
          /\ NumLe(NumAdd(Num(4), DeclaredLen(last.stream)), ByteLen(last.stream))
          /\ <<At(last.stream, 4), At(last.stream, 5)>> = <<82, 84>>
          /\ At(last.stream, 6) = 1
          /\ At(last.stream, 7) \notin 1 .. 5
          => ProtocolErrorWith(last.err, 1003) /\ last.out = Nil)

\* A complete frame whose type byte is 0 was rejected with BadFrame.
C9_Witness ==
    /\ last.op = "Decode"
    /\ Has(last.stream, 13)
    /\ ~OutOfRange(DeclaredLen(last.stream))
    /\ NumLe(NumAdd(Num(4), DeclaredLen(last.stream)), ByteLen(last.stream))
    /\ <<At(last.stream, 4), At(last.stream, 5)>> = <<82, 84>>
    /\ At(last.stream, 6) = 1
    /\ At(last.stream, 7) = 0
    /\ ProtocolErrorWith(last.err, 1003)
    /\ last.out = Nil

\* ------------------------------------------------------------ C10

\* The error of the first check that fails on the stream s, the checks taken in
\* the order: length read, length range, body read, magic, version, type.
FirstFailure(s) ==
    IF ~Has(s, 4) THEN "end of input"
    ELSE IF OutOfRange(DeclaredLen(s)) THEN "invalid frame size"
    ELSE IF NumLt(ByteLen(s), NumAdd(Num(4), DeclaredLen(s))) THEN "end of input"
    ELSE IF <<At(s, 4), At(s, 5)>> # <<82, 84>> THEN "invalid magic marker"
    ELSE IF At(s, 6) # 1 THEN "invalid protocol version"
    ELSE IF At(s, 7) \notin 1 .. 5 THEN "invalid frame type"
    ELSE "none"

\* What an error of Decode reports.
Reported(err) ==
    IF err = NoError THEN "none"
    ELSE IF IsEndOfInput(err) THEN "end of input"
    ELSE err.msg

\* C10: Decode validates in the order length read, length range, body read,
\* magic, version, type and returns the error of the first check that fails,
\* with its code: the size error and the magic and type errors are BadFrame,
\* the version error is InvalidVersion.
C10_ValidationOrder ==
    last.op = "Decode" =>
      /\ Reported(last.err) = FirstFailure(last.stream)
      /\ (IsProtocolError(last.err) =>
            last.err.code = IF last.err.msg = "invalid protocol version" THEN 1001 ELSE 1003)

\* A complete frame with a bad magic marker and a bad version: BadFrame is reported.
C10_Witness ==
    /\ last.op = "Decode"
    /\ FirstFailure(last.stream) = "invalid magic marker"
    /\ At(last.stream, 6) # 1
    /\ ProtocolErrorWith(last.err, 1003)

\* ------------------------------------------------------------ C11

\* The frame the wire layout puts at the head of the stream s: version, type
\* and flags at offsets 6, 7, 8, the stream ID big-endian at 9..12, and the
\* payload the declared length delimits from offset 13 on.
FrameOnWire(s) ==
    [Version  |-> At(s, 6),
     Type     |-> At(s, 7),
     Flags    |-> At(s, 8),
     StreamID |-> <<At(s, 9) * 256 + At(s, 10), At(s, 11) * 256 + At(s, 12)>>,
     Payload  |-> Take(Drop(s, Num(13)), NumSub(DeclaredLen(s), Num(9)))]

\* C11: no partial result.  Decode returns either a frame and no error, or no
\* frame and an error, never both and never neither; and every field of a
\* returned frame (version, type, flags, stream ID, payload) is the one the
\* input bytes hold, none is a default.
C11_NoPartialResult ==
    last.op = "Decode" =>
      /\ (last.out = Nil) # (last.err = NoError)
      /\ (last.out # Nil =>
            /\ Len(last.out) = 1
            /\ Has(last.stream, 13)
            /\ last.out[1] = FrameOnWire(last.stream))

\* Decode returned a frame with flags 0xFF, stream ID 0x01020304 and a
\* three-byte payload, all of them the bytes of the input.
C11_Witness ==
    /\ last.op = "Decode"
    /\ last.err = NoError
    /\ last.out # Nil
    /\ last.out[1].Flags = 255
    /\ last.out[1].StreamID = <<258, 772>>
    /\ last.out[1].Payload = Bytes(<<82, 0, 255>>)
    /\ last.out[1] = FrameOnWire(last.stream)

\* ------------------------------------------------------------ C12

\* C12: every error Encode or Decode returns is either the error the caller's
\* sink or source reported, passed on as it is (the sink's Write error from
\* Encode, the end-of-input error of reading the source from Decode), or a
\* ProtocolError whose code is one of 1001, 1002, 1003, 1004; never a
\* ProtocolError of code 0, 2001, 2002, 3001 or 3002.
C12_OnlyFramingCodes ==
    last.op \in {"Encode", "Decode"} /\ last.err # NoError =>
      \/ last.op = "Encode" /\ last.err = ErrSink
      \/ last.op = "Decode" /\ IsEndOfInput(last.err)
      \/ IsProtocolError(last.err) /\ last.err.code \in {1001, 1002, 1003, 1004}

\* The sink failed at the write of the stream ID and Encode returned the
\* sink's error, not a ProtocolError.
C12_Witness ==
    /\ last.op = "Encode"
    /\ last.failAt = 4
    /\ last.err = ErrSink
    /\ ~IsProtocolError(last.err)

\* ------------------------------------------------------------ C13

\* The bytes the last call of Encode added to the sink.
Written == Drop(stream, ByteLen(last.stream))

\* The bytes w are the wire layout of the frame f: the length 9 + N, the magic
\* marker, version 1, type, flags, the stream ID big-endian, the payload.
IsLayoutOf(w, f) ==
    /\ ByteLen(w) = NumAdd(Num(13), ByteLen(f.Payload))
    /\ DeclaredLen(w) = TotalSize(f)
    /\ <<At(w, 4), At(w, 5)>> = <<82, 84>>
    /\ At(w, 6) = 1
    /\ At(w, 7) = f.Type
    /\ At(w, 8) = f.Flags
    /\ <<At(w, 9) * 256 + At(w, 10), At(w, 11) * 256 + At(w, 12)>> = f.StreamID
    /\ Drop(w, Num(13)) = f.Payload

\* C13 as stated: for every frame Encode accepts, with a payload of N bytes,
\* the bytes written are exactly 13 + N: the big-endian 32-bit value 9 + N,
\* 0x52 0x54, the version 1, the type, the flags, the stream ID big-endian,
\* and the payload unchanged.
C13_AsClaimed ==
    last.op = "Encode" /\ last.err = NoError => IsLayoutOf(Written, last.f[1])

\* The same for the frames whose 9 + N is at most MaxFrameSize.
C13_LayoutInRange ==
    /\ last.op = "Encode"
    /\ last.err = NoError
    /\ NumLe(TotalSize(last.f[1]), Num(MaxFrameSize))
    => IsLayoutOf(Written, last.f[1])

\* ------------------------------------------------------------ C14

\* The writes Encode issues for a frame it does not reject: the length, the
\* magic marker, version/type/flags, the stream ID and, unless empty, the payload.
WritesOf(f) == IF f.Payload = <<>> THEN 4 ELSE 5

\* The bytes of the frame's encoding that the first j of these writes carry.
WriteEnd(j, f) ==
    CASE j = 0 -> Num(0)
      [] j = 1 -> Num(4)
      [] j = 2 -> Num(6)
      [] j = 3 -> Num(9)
      [] j = 4 -> Num(13)
      [] OTHER -> NumAdd(Num(13), ByteLen(f.Payload))

\* The last call was Encode, of a frame that passes its version and size
\* checks, on a sink that fails at one of the writes the call issues.
SinkFailed ==
    /\ last.op = "Encode"
    /\ last.f[1].Version = 1
    /\ NumLe(TotalSize(last.f[1]), Num(MaxFrameSize))
    /\ last.failAt \in 1 .. WritesOf(last.f[1])

\* C14: sink failure during Encode.  The writes are issued in the order
\* length, magic, version/type/flags, stream ID, payload.  When the sink
\* reports an error on one of them, Encode returns that error and issues no
\* further write, and nothing is rolled back: the sink holds what it held,
\* then the bytes of the earlier writes, a strict prefix of the frame's
\* encoding, then whatever the failing write took.  Encode returns nil only
\* if every write succeeded, and then the sink holds the whole encoding.
C14_SinkFailure ==
    /\ (SinkFailed =>
          LET f    == last.f[1]
              k    == last.failAt
              done == WriteEnd(k - 1, f)
              took == NumMin(Num(last.part), NumSub(WriteEnd(k, f), done))
          IN  /\ last.err = ErrSink
              /\ last.writes = k
              /\ NumLt(done, ByteLen(Image(f)))
              /\ StartsWith(stream, Cat(last.stream, Take(Image(f), done)))
              /\ Written = Take(Image(f), NumAdd(done, took)))
    /\ (last.op = "Encode" /\ last.err = NoError =>
          /\ ~SinkFailed
          /\ last.writes = WritesOf(last.f[1])
          /\ Written = Image(last.f[1]))

\* The sink already held a frame and failed at the write of the payload,
\* after taking one byte of it: Encode returned the sink's error and the 13
\* header bytes and that byte stayed in the sink.
C14_Witness ==
    /\ SinkFailed
    /\ last.stream # <<>>
    /\ last.failAt = 5
    /\ last.part = 1
    /\ last.err = ErrSink
    /\ ByteLen(Written) = Num(14)
    /\ Written = Take(Image(last.f[1]), Num(14))

\* ------------------------------------------------------------ C15

\* C15: classification by stream ID.  For every 32-bit stream ID exactly one
\* of IsControlFrame and IsDataStream is true: IsControlFrame exactly when the
\* stream ID is 0, IsDataStream exactly when it is greater than 0, up to
\* 0xFFFFFFFF; and neither call changes the frame.
C15_Classification ==
    last.op = "Classify" =>
      LET sid == last.f[1].StreamID
      IN  /\ last.isControl # last.isData
          /\ last.isControl = (sid = <<0, 0>>)
          /\ last.isData = (sid[1] > 0 \/ sid[2] > 0)
          /\ sent = last.f

\* The frame with stream ID 0xFFFFFFFF was classified as a data stream, not
\* as a control frame.
C15_Witness ==
    /\ last.op = "Classify"
    /\ last.f[1].StreamID = <<65535, 65535>>
    /\ last.isData
    /\ ~last.isControl
    /\ sent = last.f

\* ------------------------------------------------------------ C16

\* Bit k of the byte v is set.
BitSet(v, k) == (v \div 2^k) % 2 = 1

\* C16: flag independence.  For every value of the Flags byte and each of the
\* single-bit flags EndStream (bit 0), Ack (bit 1) and Error (bit 2), HasFlag
\* of that flag is true exactly when that bit of Flags is set, whatever the
\* other bits are; and IsEndStream, IsAck and IsError are HasFlag of
\* EndStream, Ack and Error.
C16_FlagIndependence ==
    last.op = "Flags" =>
      LET fl == last.f[1].Flags
      IN  /\ last.has[1] = BitSet(fl, 0)
          /\ last.has[2] = BitSet(fl, 1)
          /\ last.has[4] = BitSet(fl, 2)
          /\ last.isEndStream = last.has[1]
          /\ last.isAck = last.has[2]
          /\ last.isError = last.has[4]

\* Flags = EndStream | Ack: the answers are true, true, false.
C16_Witness ==
    /\ last.op = "Flags"
    /\ last.f[1].Flags = 3
    /\ last.has[1] /\ last.has[2] /\ ~last.has[4]
    /\ last.isEndStream /\ last.isAck /\ ~last.isError

\* ------------------------------------------------------------ C17

\* C17: bytes consumed on rejection.  When Decode rejects the declared length
\* (below 9 or above MaxFrameSize) it has consumed the 4 length bytes and no
\* byte after them.  When it rejects a frame for its magic marker, its version
\* or its type, it has consumed the 4 + length bytes of the declared frame:
\* the source stands at the byte that follows the rejected frame.
C17_ConsumedOnRejection ==
    last.op = "Decode" =>
      /\ (FirstFailure(last.stream) = "invalid frame size" =>
            /\ last.err # NoError
            /\ stream = Drop(last.stream, Num(4))
            /\ ByteLen(last.stream) = NumAdd(ByteLen(stream), Num(4)))
      /\ (FirstFailure(last.stream) \in
             {"invalid magic marker", "invalid protocol version", "invalid frame type"} =>
            LET n == NumAdd(Num(4), DeclaredLen(last.stream))
            IN  /\ last.err # NoError
                /\ stream = Drop(last.stream, n)
                /\ ByteLen(last.stream) = NumAdd(ByteLen(stream), n))

\* A frame with a payload was rejected for its version; a second frame
\* followed it, and the source is left holding exactly that frame.
C17_Witness ==
    /\ last.op = "Decode"
    /\ ProtocolErrorWith(last.err, 1001)
    /\ NumLt(Num(9), DeclaredLen(last.stream))
    /\ stream # <<>>
    /\ stream = Drop(last.stream, NumAdd(Num(4), DeclaredLen(last.stream)))
    /\ Decode(stream).err = NoError
    /\ Decode(stream).r = <<>>

\* ------------------------------------------------------------ C18

\* C18 as stated: the size limit on the encode side, for every payload length,
\* the conversion to 32 bits being arithmetic modulo 2^32.  Whenever Encode
\* writes a frame, the value in its length field is 9 + len(payload) and
\* 9 + len(payload) is at most MaxFrameSize; a payload of 2^32 - 9 bytes or
\* more is rejected with FrameTooLarge (1002), not written with a wrapped
\* length.
C18_AsClaimed ==
    last.op = "Encode" =>
      /\ (Written # <<>> =>
            /\ DeclaredLen(Written) = TotalSize(last.f[1])
            /\ NumLe(TotalSize(last.f[1]), Num(MaxFrameSize)))
      /\ (last.f[1].Version = 1 /\ NumLe(<<65535, 65527>>, ByteLen(last.f[1].Payload)) =>
            /\ ProtocolErrorWith(last.err, 1002)
            /\ Written = <<>>)

\* ------------------------------------------------------------ C19

\* The bytes the last call of Decode consumed: a prefix of its input.
Consumed == Take(last.stream, NumSub(ByteLen(last.stream), ByteLen(stream)))

\* C19: canonical encoding.  Whenever Decode succeeds, returning the frame f
\* after consuming the prefix p of its input, Encode of f into an empty sink
\* succeeds and writes exactly p; so no two different prefixes decode to the
\* same frame.
C19_CanonicalEncoding ==
    last.op = "Decode" /\ last.err = NoError =>
      LET res == Encode(Writer(<<>>, 0, 0), last.out[1])
      IN  /\ res.err = NoError
          /\ res.w.data = Consumed
          /\ Cat(Consumed, stream) = last.stream

\* Decode succeeded on bytes that Encode had not written as they are: a byte
\* of the stream had been changed, and the frame returned is none of the
\* frames encoded; encoding it again gives the bytes consumed.
C19_Witness ==
    /\ last.op = "Decode"
    /\ last.err = NoError
    /\ last.stream # last.orig
    /\ \A k \in 1 .. Len(last.sent) : last.sent[k] # last.out[1]
    /\ Image(last.out[1]) = Consumed
    /\ Consumed # <<>>

\* ------------------------------------------------------------ C20

\* The last call was Decode, on exactly the bytes Encode wrote for one frame
\* it accepted.
DecodedOneEncoding ==
    /\ last.op = "Decode"
    /\ last.whole
    /\ Len(last.sent) = 1
    /\ last.stream = Image(last.sent[1])

\* C20 as stated: with a sink that never fails, Encode succeeds exactly when
\* the version is 1 and 9 + len(payload) is at most MaxFrameSize, whatever the
\* type, the flags and the stream ID are.  So it accepts a frame whose type is
\* outside 1..5, Decode of the bytes written then fails with BadFrame (1003),
\* and Decode of the bytes Encode wrote succeeds exactly when the type is in
\* 1..5.
C20_AsClaimed ==
    /\ (last.op = "Encode" =>
          (last.err = NoError) =
            (last.f[1].Version = 1 /\ NumLe(TotalSize(last.f[1]), Num(MaxFrameSize))))
    /\ (DecodedOneEncoding =>
          IF last.sent[1].Type \in 1 .. 5
          THEN last.err = NoError
          ELSE ProtocolErrorWith(last.err, 1003))

\* The same for the frames whose 9 + len(payload) is below 2^32.
C20_AcceptanceBelowWrap ==
    /\ (last.op = "Encode" /\ NumLt(TotalSize(last.f[1]), <<65536, 0>>) =>
          (last.err = NoError) =
            (last.f[1].Version = 1 /\ NumLe(TotalSize(last.f[1]), Num(MaxFrameSize))))
    /\ (DecodedOneEncoding /\ NumLt(TotalSize(last.sent[1]), <<65536, 0>>) =>
          IF last.sent[1].Type \in 1 .. 5
          THEN last.err = NoError
          ELSE ProtocolErrorWith(last.err, 1003))

====
